---- MODULE Spec2Model ----
(***************************************************************************)
(* A model of homework.py: the poll / check / notify loop of main and the  *)
(* functions it calls.  Texts are sequences of string tokens (an f-string  *)
(* is the concatenation of its literal parts and its arguments); the       *)
(* Russian literals of the source are written in Latin letters.  None is   *)
(* the empty sequence: every text the program builds is non-empty.         *)
(***************************************************************************)
EXTENDS Integers, Sequences, FiniteSets, TLC

VARIABLES
    pc,            \* position of main: start, fetch, check, extract, notify,
                   \* except, finally, exited (sys.exit), crashed (an
                   \* exception left the while loop)
    env,           \* the three module-level settings read from the environment
    timestamp,     \* main's cursor
    last_message,  \* main's last notified text, None at first
    response,      \* main's local: the value get_api_answer returned
    message,       \* main's local: the candidate message
    error,         \* the exception in flight, NoExc when none
    raising,       \* an exception is leaving the except clause
    \* observers of the run, written by the calls they observe
    ts0,           \* timestamp at the top of the current iteration
    lm0,           \* last_message at the top of the current iteration
    hasCand,       \* the current iteration computed its candidate message
    attempts,      \* bot.send_message calls of the current iteration
    delivered,     \* text of the latest call of bot.send_message that returned
    iterErr,       \* error_message of the current iteration, None if none
    prevErr,       \* error_message of the previous iteration, None if none
    runNotes,      \* reports of prevErr sent by the latest consecutive
                   \* iterations whose error_message was prevErr
    sleeps,        \* time.sleep calls since the latest fetch
    polled,        \* get_api_answer has been called at least once
    lastCand,      \* candidate of the latest iteration that computed one
    lastSettled,   \* that iteration delivered it or found it unchanged
    prevHadCand,   \* the previous iteration computed a candidate
    lastStatus,    \* the latest candidate that was delivered
    reply,         \* what requests.get did in the current iteration
    gets           \* requests.get calls of the current iteration

vars == <<pc, env, timestamp, last_message, response, message, error, raising,
          ts0, lm0, hasCand, attempts, delivered, iterErr, prevErr, runNotes,
          sleeps, polled, lastCand, lastSettled, prevHadCand, lastStatus,
          reply, gets>>

\* the observers that outlive an iteration, and those of the request
history == <<lastCand, lastSettled, prevHadCand, lastStatus>>

request == <<reply, gets>>

\* ------------------------------------------------------------------ bounds

\* current_date values and the clock at startup range over 0..MaxDate
MaxDate == 2

\* ------------------------------------------------------------------ values

None == <<>>

NoExc == [kind |-> "", text |-> None]

Exc(kind, text) == [kind |-> kind, text |-> text]

\* str(error): KeyError shows the repr of its argument, the others the argument
Str(exc) ==
    IF exc.kind = "KeyError" THEN <<"'">> \o exc.text \o <<"'">> ELSE exc.text

HTTP_OK == 200

HOMEWORK_VERDICTS ==
    [approved  |-> "Rabota proverena: revyueru vsyo ponravilos. Ura!",
     reviewing |-> "Rabota vzyata na proverku revyuerom.",
     rejected  |-> "Rabota proverena: u revyuera est zamechaniya."]

NoNewStatuses == <<"Net novyh statusov domashnih rabot.">>

\* ------------------------------------------------------------------ inputs

TokenNames == <<"PRACTICUM_TOKEN", "TELEGRAM_TOKEN", "TELEGRAM_CHAT_ID">>

\* os.getenv gives None (set = FALSE), the empty string, or a value
EnvValues ==
    {[set |-> FALSE, value |-> ""], [set |-> TRUE, value |-> ""],
     [set |-> TRUE, value |-> "secret"]}

Environments == [{TokenNames[i] : i \in 1..3} -> EnvValues]

\* a homework record: a dict that may lack either key
Homework(hasName, name, hasStatus, status) ==
    [hasName |-> hasName, homework_name |-> name,
     hasStatus |-> hasStatus, status |-> status]

Statuses == {"approved", "reviewing", "rejected", "unknown_code"}

FirstRecords ==
    {Homework(hn, IF hn THEN "proj1" ELSE "", TRUE, s) :
        hn \in BOOLEAN, s \in Statuses}
    \cup {Homework(hn, IF hn THEN "proj1" ELSE "", FALSE, "") : hn \in BOOLEAN}

LaterRecords ==
    {Homework(TRUE, "proj0", TRUE, "rejected"),
     Homework(FALSE, "", TRUE, "unknown_code")}

HomeworkLists ==
    {<<>>} \cup {<<h>> : h \in FirstRecords}
    \cup {<<h, k>> : h \in {Homework(TRUE, "proj1", TRUE, "approved"),
                            Homework(TRUE, "proj1", FALSE, "")},
                     k \in LaterRecords}

\* a parsed JSON body: a dict (with or without each key, each of the right
\* type or not) or something that is not a dict.  dateIsInt is what
\* isinstance(current_date, int) gives: true of an int and of a bool, which
\* Python makes a subclass of int (True is 1, False is 0); dateIsBool tells
\* the JSON true and false from the JSON numbers.
Body(isDict, hasHw, hwIsList, hws, hasDate, dateIsInt, dateIsBool, date) ==
    [isDict |-> isDict, hasHomeworks |-> hasHw, homeworksIsList |-> hwIsList,
     homeworks |-> hws, hasDate |-> hasDate, dateIsInt |-> dateIsInt,
     dateIsBool |-> dateIsBool, current_date |-> date]

NoBody == Body(FALSE, FALSE, FALSE, <<>>, FALSE, FALSE, FALSE, 0)

HomeworksFields ==
    {<<FALSE, FALSE, <<>>>>, <<TRUE, FALSE, <<>>>>}
    \cup {<<TRUE, TRUE, l>> : l \in HomeworkLists}

DateFields ==
    {<<FALSE, FALSE, FALSE, 0>>, <<TRUE, FALSE, FALSE, 0>>}
    \cup {<<TRUE, TRUE, FALSE, d>> : d \in 0..MaxDate}
    \cup {<<TRUE, TRUE, TRUE, 1>>}

Bodies ==
    {NoBody}
    \cup {Body(TRUE, h[1], h[2], h[3], d[1], d[2], d[3], d[4]) :
            h \in HomeworksFields, d \in DateFields}

\* what requests.get does: raises a RequestException (cause # ""), or returns
\* a reply with a status code, a text and a body that parses as JSON or not
Http(cause, code, text, isJson, body) ==
    [cause |-> cause, status_code |-> code, text |-> text, isJson |-> isJson,
     body |-> body]

NoReply == Http("", 0, "", FALSE, NoBody)

HttpOutcomes ==
    {Http(c, 0, "", FALSE, NoBody) : c \in {"timeout", "reset"}}
    \cup {Http("", 500, "oops", FALSE, NoBody)}
    \cup {Http("", HTTP_OK, "", FALSE, NoBody)}
    \cup {Http("", HTTP_OK, "", TRUE, b) : b \in Bodies}

\* what bot.send_message does: returns, raises telebot's ApiException, or
\* raises an exception of the transport under it, which is no ApiException
SendOutcomes == {"ok", "ApiException", "ConnectionError"}

\* --------------------------------------------------------------- functions

Raise(exc) == [raised |-> exc, value |-> None]

Return(v) == [raised |-> NoExc, value |-> v]

\* a check that takes only an unset variable for missing
check_tokens_unset(e) == SelectSeq(TokenNames, LAMBDA n : ~e[n].set)

\* check_tokens: the names, in the order of required_vars, whose value is falsy
check_tokens(e) ==
    SelectSeq(TokenNames, LAMBDA n : ~e[n].set \/ e[n].value = "")

\* a client whose except clause catches every exception, so that the
\* APIResponseError it raised itself comes out as an APIRequestError
get_api_answer_catch_all(http) ==
    IF http.cause # ""
    THEN [raised |-> Exc("APIRequestError",
                         <<"Oshibka soedineniya: ", http.cause, ".">>),
          value |-> NoBody]
    ELSE IF http.status_code # HTTP_OK
    THEN [raised |-> Exc("APIRequestError",
                         <<"Oshibka soedineniya: ", "Oshibka zaprosa: ",
                           ToString(http.status_code), " - ", http.text,
                           ".", ".">>),
          value |-> NoBody]
    ELSE IF ~http.isJson
    THEN [raised |-> Exc("APIRequestError",
                         <<"Oshibka soedineniya: ", "JSONDecodeError", ".">>),
          value |-> NoBody]
    ELSE [raised |-> NoExc, value |-> http.body]

\* get_api_answer: one GET; a reply that is not 200 raises APIResponseError
\* inside the try, which the except clause does not catch; a RequestException
\* of requests.get or of response.json() is raised again as APIRequestError
get_api_answer(http) ==
    IF http.cause # ""
    THEN [raised |-> Exc("APIRequestError",
                         <<"Oshibka soedineniya: ", http.cause, ".">>),
          value |-> NoBody]
    ELSE IF http.status_code # HTTP_OK
    THEN [raised |-> Exc("APIResponseError",
                         <<"Oshibka zaprosa: ", ToString(http.status_code),
                           " - ", http.text, ".">>),
          value |-> NoBody]
    ELSE IF ~http.isJson
    THEN [raised |-> Exc("APIRequestError",
                         <<"Oshibka soedineniya: ", "JSONDecodeError", ".">>),
          value |-> NoBody]
    ELSE [raised |-> NoExc, value |-> http.body]

\* check_response: the exception of the first check that fails, NoExc if none
check_response(r) ==
    IF ~r.isDict
    THEN Exc("TypeError", <<"Otvet API dolzhen byt slovaryom.">>)
    ELSE IF ~r.hasHomeworks
    THEN Exc("KeyError", <<"Otsutstvuet klyuch \"homeworks\" v otvete API.">>)
    ELSE IF ~r.homeworksIsList
    THEN Exc("TypeError", <<"homeworks dolzhen byt spiskom.">>)
    ELSE IF ~r.hasDate
    THEN Exc("KeyError",
             <<"Otsutstvuet klyuch \"current_date\" v otvete API.">>)
    ELSE IF ~r.dateIsInt
    THEN Exc("TypeError", <<"current_date dolzhen byt celym chislom.">>)
    ELSE NoExc

\* a parser that looks the status up before it checks the keys are there:
\* a record with no status is reported before one with no homework_name
parse_status_status_first(homework) ==
    IF ~homework.hasStatus
    THEN Raise(Exc("KeyError",
                   <<"Otsutstvuet klyuch \"status\" v homework.">>))
    ELSE IF ~homework.hasName
    THEN Raise(Exc("KeyError",
                   <<"Otsutstvuet klyuch \"homework_name\" v homework.">>))
    ELSE IF homework.status \notin DOMAIN HOMEWORK_VERDICTS
    THEN Raise(Exc("ValueError",
                   <<"Neizvestnyy status: ", homework.status, ".">>))
    ELSE Return(<<"Izmenilsya status proverki raboty \"",
                  homework.homework_name, "\". ",
                  HOMEWORK_VERDICTS[homework.status]>>)

\* parse_status
parse_status(homework) ==
    IF ~homework.hasName
    THEN Raise(Exc("KeyError",
                   <<"Otsutstvuet klyuch \"homework_name\" v homework.">>))
    ELSE IF ~homework.hasStatus
    THEN Raise(Exc("KeyError",
                   <<"Otsutstvuet klyuch \"status\" v homework.">>))
    ELSE IF homework.status \notin DOMAIN HOMEWORK_VERDICTS
    THEN Raise(Exc("ValueError",
                   <<"Neizvestnyy status: ", homework.status, ".">>))
    ELSE Return(<<"Izmenilsya status proverki raboty \"",
                  homework.homework_name, "\". ",
                  HOMEWORK_VERDICTS[homework.status]>>)

\* a sender whose log line raises after bot.send_message returned
send_message_log_raises(text, outcome) ==
    IF outcome = "ok" THEN Exc("ValueError", <<"log failed">>)
    ELSE Exc(outcome, <<"send failed: ", outcome>>)

\* send_message: the exception bot.send_message raises, passed on unchanged
send_message(text, outcome) ==
    IF outcome = "ok" THEN NoExc
    ELSE Exc(outcome, <<"send failed: ", outcome>>)

\* a loop that takes the latest record of the list
LastHomework(homeworks) == homeworks[Len(homeworks)]

\* main, line 180: homeworks[0]
FirstHomework(homeworks) == homeworks[1]

\* main, line 194
ErrorMessage(exc) == <<"Sboy v rabote programmy: ">> \o Str(exc)

\* a loop that sends every text it builds
ChangedAlways(text, last) == TRUE

\* a loop that remembers the status it delivered apart from the error reports
ChangedSinceStatus(text, last) == text # last /\ text # lastStatus

\* main, lines 184 and 196: the text is sent only if it is not the last one
Changed(text, last) == text # last

\* main, line 187: the inner try catches ApiException and nothing else
CaughtLocally(exc) == exc.kind = "ApiException"

\* a loop that never records what it sent
NotifiedMessageKept(sent, text, last) == last

\* a loop that records the text whether its delivery succeeded or not
NotifiedMessageAlways(sent, text, last) == text

\* main, line 190
NotifiedMessage(sent, text, last) == IF sent THEN text ELSE last

\* a loop that advances the cursor whether the delivery succeeded or not
AdvancedCursorOnAnySend(sent, resp, ts) ==
    IF resp.hasDate THEN resp.current_date ELSE ts

\* a loop that never advances the cursor
AdvancedCursorNever(sent, resp, ts) == ts

\* a loop that reads the cursor under a key the response does not have, with
\* the default 0
AdvancedCursorWrongKey(sent, resp, ts) == IF sent THEN 0 ELSE ts

\* main, line 191
AdvancedCursor(sent, resp, ts) ==
    IF sent THEN (IF resp.hasDate THEN resp.current_date ELSE ts) ELSE ts

\* what one call of bot.send_message leaves behind
Sent(text, outcome) == [text |-> text, outcome |-> outcome]

\* the calls of bot.send_message, among those of log, that carried text
Reports(log, text) ==
    Cardinality({i \in 1..Len(log) : log[i].text = text})

\* ------------------------------------------------------------------ main

Init ==
    /\ pc = "start"
    /\ env \in Environments
    /\ timestamp = 0
    /\ last_message = None
    /\ response = NoBody
    /\ message = None
    /\ error = NoExc
    /\ raising = FALSE
    /\ ts0 = 0
    /\ lm0 = None
    /\ hasCand = FALSE
    /\ attempts = <<>>
    /\ delivered = None
    /\ iterErr = None
    /\ prevErr = None
    /\ runNotes = 0
    /\ sleeps = 0
    /\ polled = FALSE
    /\ lastCand = None
    /\ lastSettled = FALSE
    /\ prevHadCand = FALSE
    /\ lastStatus = None
    /\ reply = NoReply
    /\ gets = 0

\* lines 156-170: leave on a missing setting, else set the cursor to the clock
Startup ==
    /\ pc = "start"
    /\ IF check_tokens(env) # <<>>
       THEN /\ pc' = "exited"
            /\ UNCHANGED timestamp
       ELSE /\ pc' = "fetch"
            /\ \E now \in 0..MaxDate : timestamp' = now
    /\ last_message' = None
    /\ ts0' = timestamp'
    /\ UNCHANGED <<env, response, message, error, raising, lm0, hasCand,
                   attempts, delivered, iterErr, prevErr, runNotes, sleeps,
                   polled>>
    /\ UNCHANGED <<history, request>>

\* a loop that advances the cursor as soon as the response is fetched
FetchAndAdvance ==
    /\ pc = "fetch"
    /\ \E http \in HttpOutcomes :
         LET r == get_api_answer(http) IN
           /\ reply' = http
           /\ gets' = gets + 1
           /\ IF r.raised # NoExc
              THEN /\ error' = r.raised
                   /\ pc' = "except"
                   /\ UNCHANGED <<response, timestamp>>
              ELSE /\ response' = r.value
                   /\ timestamp' =
                          AdvancedCursorOnAnySend(TRUE, r.value, timestamp)
                   /\ pc' = "check"
                   /\ UNCHANGED error
    /\ sleeps' = 0
    /\ polled' = TRUE
    /\ UNCHANGED <<env, last_message, message, raising, ts0, lm0, hasCand,
                   attempts, delivered, iterErr, prevErr, runNotes>>
    /\ UNCHANGED history

\* line 174, the first statement of an iteration
Fetch ==
    /\ pc = "fetch"
    /\ \E http \in HttpOutcomes :
         LET r == get_api_answer(http) IN
           /\ reply' = http
           /\ gets' = gets + 1
           /\ IF r.raised # NoExc
              THEN /\ error' = r.raised
                   /\ pc' = "except"
                   /\ UNCHANGED response
              ELSE /\ response' = r.value
                   /\ pc' = "check"
                   /\ UNCHANGED error
    /\ sleeps' = 0
    /\ polled' = TRUE
    /\ UNCHANGED <<env, timestamp, last_message, message, raising, ts0, lm0,
                   hasCand, attempts, delivered, iterErr, prevErr, runNotes>>
    /\ UNCHANGED history

\* line 176
Validate ==
    /\ pc = "check"
    /\ LET e == check_response(response) IN
         /\ error' = e
         /\ pc' = IF e # NoExc THEN "except" ELSE "extract"
    /\ UNCHANGED <<env, timestamp, last_message, response, message, raising,
                   ts0, lm0, hasCand, attempts, delivered, iterErr, prevErr,
                   runNotes, sleeps, polled>>
    /\ UNCHANGED <<history, request>>

\* lines 177-182
Extract ==
    /\ pc = "extract"
    /\ LET homeworks == response.homeworks
           r == IF homeworks # <<>>
                THEN parse_status(FirstHomework(homeworks))
                ELSE Return(NoNewStatuses)
       IN IF r.raised # NoExc
          THEN /\ error' = r.raised
               /\ pc' = "except"
               /\ UNCHANGED <<message, hasCand>>
          ELSE /\ message' = r.value
               /\ hasCand' = TRUE
               /\ pc' = "notify"
               /\ UNCHANGED error
    /\ UNCHANGED <<env, timestamp, last_message, response, raising, ts0, lm0,
                   attempts, delivered, iterErr, prevErr, runNotes, sleeps,
                   polled>>
    /\ UNCHANGED <<history, request>>

\* lines 184-191
Notify ==
    /\ pc = "notify"
    /\ IF Changed(message, last_message)
       THEN \E outcome \in SendOutcomes :
              LET e == send_message(message, outcome) IN
                /\ attempts' = Append(attempts, Sent(message, outcome))
                /\ delivered' = IF e = NoExc THEN message ELSE delivered
                /\ last_message' =
                       NotifiedMessage(e = NoExc, message, last_message)
                /\ timestamp' = AdvancedCursor(e = NoExc, response, timestamp)
                /\ IF e = NoExc \/ CaughtLocally(e)
                   THEN pc' = "finally" /\ UNCHANGED error
                   ELSE pc' = "except" /\ error' = e
       ELSE /\ pc' = "finally"
            /\ UNCHANGED <<attempts, delivered, last_message, timestamp,
                           error>>
    /\ UNCHANGED <<env, response, message, raising, ts0, lm0, hasCand,
                   iterErr, prevErr, runNotes, sleeps, polled>>
    /\ UNCHANGED <<history, request>>

\* lines 193-198: an exception of send_message leaves the except clause
HandleError ==
    /\ pc = "except"
    /\ LET error_message == ErrorMessage(error) IN
         /\ iterErr' = error_message
         /\ IF Changed(error_message, last_message)
            THEN \E outcome \in SendOutcomes :
                   LET e == send_message(error_message, outcome) IN
                     /\ attempts' =
                            Append(attempts, Sent(error_message, outcome))
                     /\ delivered' =
                            IF e = NoExc THEN error_message ELSE delivered
                     /\ last_message' =
                            NotifiedMessage(e = NoExc, error_message,
                                            last_message)
                     /\ raising' = (e # NoExc)
                     /\ error' = e
            ELSE /\ error' = NoExc
                 /\ UNCHANGED <<attempts, delivered, last_message, raising>>
    /\ pc' = "finally"
    /\ UNCHANGED <<env, timestamp, response, message, ts0, lm0, hasCand,
                   prevErr, runNotes, sleeps, polled>>
    /\ UNCHANGED <<history, request>>

\* what the iteration that ends leaves to the observers of the next ones
Remember ==
    /\ prevHadCand' = hasCand
    /\ lastCand' = IF hasCand THEN message ELSE lastCand
    /\ lastSettled' =
         IF hasCand THEN attempts = <<>> \/ attempts[1].outcome = "ok"
         ELSE lastSettled
    /\ lastStatus' =
         IF hasCand /\ attempts # <<>> /\ attempts[1] = Sent(message, "ok")
         THEN message ELSE lastStatus

\* a loop whose sleep is the last statement of the try body, not a finally
\* clause: it is skipped when the except clause ran
SleepInTryBody ==
    /\ pc = "finally"
    /\ sleeps' = IF iterErr = None THEN sleeps + 1 ELSE sleeps
    /\ IF raising
       THEN /\ pc' = "crashed"
            /\ UNCHANGED <<response, message, error, ts0, lm0, hasCand,
                           attempts, iterErr, prevErr, runNotes,
                           history, request>>
       ELSE /\ pc' = "fetch"
            /\ response' = NoBody
            /\ message' = None
            /\ error' = NoExc
            /\ ts0' = timestamp
            /\ lm0' = last_message
            /\ hasCand' = FALSE
            /\ attempts' = <<>>
            /\ iterErr' = None
            /\ prevErr' = iterErr
            /\ runNotes' = (IF iterErr # None /\ iterErr = prevErr
                            THEN runNotes ELSE 0)
                           + Reports(attempts, iterErr)
            /\ Remember
            /\ reply' = NoReply
            /\ gets' = 0
    /\ UNCHANGED <<env, timestamp, last_message, raising, delivered, polled>>

\* lines 200-201: the finally clause runs on every way out of the try statement,
\* then the exception that is leaving ends main, or the loop goes on.  At the
\* top of the loop response, message and error are dead (each is assigned
\* before it is read again), so they are cleared, and the observers of the
\* iteration start afresh.
Sleep ==
    /\ pc = "finally"
    /\ sleeps' = sleeps + 1
    /\ IF raising
       THEN /\ pc' = "crashed"
            /\ UNCHANGED <<response, message, error, ts0, lm0, hasCand,
                           attempts, iterErr, prevErr, runNotes,
                           history, request>>
       ELSE /\ pc' = "fetch"
            /\ response' = NoBody
            /\ message' = None
            /\ error' = NoExc
            /\ ts0' = timestamp
            /\ lm0' = last_message
            /\ hasCand' = FALSE
            /\ attempts' = <<>>
            /\ iterErr' = None
            /\ prevErr' = iterErr
            /\ runNotes' = (IF iterErr # None /\ iterErr = prevErr
                            THEN runNotes ELSE 0)
                           + Reports(attempts, iterErr)
            /\ Remember
            /\ reply' = NoReply
            /\ gets' = 0
    /\ UNCHANGED <<env, timestamp, last_message, raising, delivered, polled>>

Next ==
    \/ Startup
    \/ Fetch
    \/ Validate
    \/ Extract
    \/ Notify
    \/ HandleError
    \/ Sleep

Spec == Init /\ [][Next]_vars

\* ----------------------------------------------------------------- claims

\* the try statement is over and the finally clause has not run yet
IterEnd == pc = "finally"

\* the notify step sent the candidate and bot.send_message returned
CandidateDelivered ==
    /\ hasCand
    /\ attempts # <<>>
    /\ attempts[1] = Sent(message, "ok")

\* the notify step sent the candidate and bot.send_message raised
CandidateFailed ==
    /\ hasCand
    /\ attempts # <<>>
    /\ attempts[1].text = message
    /\ attempts[1].outcome # "ok"

\* C1, as stated: at the end of an iteration the cursor differs from its value
\* at the top of the iteration if and only if the candidate differed from
\* last_message and its delivery succeeded.
C1_CursorChangesIffDelivered ==
    IterEnd => ((timestamp # ts0) <=> (CandidateDelivered /\ message # lm0))

\* C1, amended: at the end of an iteration the cursor differs from its value at
\* the top of the iteration if and only if the candidate differed from
\* last_message, its delivery succeeded and the current_date of the response
\* is not the value the cursor already had; so it is unchanged after a failed
\* delivery, an equal candidate or a handled error.
C1_CursorChangesIffDeliveredNewDate ==
    /\ IterEnd =>
         ((timestamp # ts0) <=>
            (CandidateDelivered /\ message # lm0
               /\ response.current_date # ts0))
    /\ IterEnd /\ (CandidateFailed \/ iterErr # None
                     \/ (hasCand /\ message = lm0)) => timestamp = ts0

C1_Witness ==
    /\ IterEnd
    /\ CandidateDelivered
    /\ message # lm0
    /\ response.current_date = ts0
    /\ timestamp = ts0
    /\ polled

\* C2: in an iteration that computed a candidate, bot.send_message is called
\* with the candidate if and only if the candidate differs from last_message,
\* and when it equals last_message nothing at all is sent in that iteration.
C2_SendIffChanged ==
    IterEnd /\ hasCand =>
      /\ (Reports(attempts, message) > 0) <=> (message # lm0)
      /\ (message = lm0 => attempts = <<>>)

C2_Witness ==
    IterEnd /\ hasCand /\ message = lm0 /\ attempts = <<>>

\* C3: after startup no outcome of fetch, validation, parsing or delivery ends
\* the loop: main never leaves the while statement with an exception.
C3_LoopNeverEnds == pc # "crashed"

\* C4: a delivery of the candidate that fails, whatever bot.send_message
\* raised, is handled in the notify step: the iteration goes to the sleep with
\* no exception in flight, and last_message and the cursor are those of the
\* top of the iteration.
C4_DeliveryFailureHandledLocally ==
    CandidateFailed =>
      /\ pc = "finally"
      /\ ~raising
      /\ iterErr = None
      /\ last_message = lm0
      /\ timestamp = ts0

\* C5, as stated: an iteration that ends in error handling sends its error
\* text once if the text differs from that of the preceding iteration and not
\* at all if it is the same, and consecutive iterations with the same error
\* text send it once in total.
C5_OneReportPerDistinctError ==
    IterEnd /\ iterErr # None =>
      /\ Reports(attempts, iterErr) = (IF iterErr = prevErr THEN 0 ELSE 1)
      /\ (iterErr = prevErr => runNotes + Reports(attempts, iterErr) = 1)

\* C5, amended: an iteration that ends in error handling sends its error text
\* once if the text differs from last_message and not at all if it equals it;
\* an iteration whose error text is that of the preceding iteration sends
\* nothing, and consecutive iterations with the same error text send it at
\* most once in total.
C5_OneReportPerChangedError ==
    IterEnd /\ iterErr # None =>
      /\ Reports(attempts, iterErr) = (IF iterErr = lm0 THEN 0 ELSE 1)
      /\ (iterErr = prevErr =>
            /\ Reports(attempts, iterErr) = 0
            /\ runNotes + Reports(attempts, iterErr) <= 1)

C5_Witness ==
    /\ IterEnd
    /\ iterErr # None
    /\ iterErr = prevErr
    /\ runNotes = 1
    /\ attempts = <<>>

\* C6: time.sleep is called exactly once between two consecutive fetches and
\* once at the end of an iteration that ends main, whichever branch was taken,
\* and never inside an iteration.
C6_OneSleepPerIteration ==
    /\ (pc = "fetch" /\ polled => sleeps = 1)
    /\ (pc = "crashed" => sleeps = 1)
    /\ (pc \in {"check", "extract", "notify", "except", "finally"} =>
          sleeps = 0)

C6_Witness ==
    pc = "fetch" /\ polled /\ sleeps = 1 /\ prevErr # None /\ runNotes = 0

\* C7, as stated: the cursor at the end of an iteration is at least the cursor
\* at its top, whatever integer current_date the endpoint returned.
C7_CursorNonDecreasing == IterEnd => timestamp >= ts0

\* C7, amended: the cursor at the end of an iteration is the cursor at its top
\* or the current_date of the response validated in that iteration, so it is
\* at least the cursor at the top whenever that current_date is.
C7_CursorFollowsCurrentDate ==
    /\ IterEnd =>
         \/ timestamp = ts0
         \/ hasCand /\ timestamp = response.current_date
    /\ IterEnd /\ (hasCand => response.current_date >= ts0) =>
         timestamp >= ts0

C7_Witness ==
    IterEnd /\ hasCand /\ response.current_date > ts0 /\ timestamp > ts0

\* C8: at the top of every iteration and at the end of its try statement,
\* last_message is the text of the latest call of bot.send_message that
\* returned, and None if none has returned yet.
C8_LastMessageIsLastDelivered ==
    pc \in {"fetch", "finally"} => last_message = delivered

C8_Witness ==
    /\ pc = "fetch"
    /\ prevErr # None
    /\ runNotes = 1
    /\ last_message = prevErr
    /\ delivered = prevErr

\* C9: when the candidate differs from last_message and its delivery succeeds,
\* the iteration ends with last_message the candidate and the cursor the
\* current_date of the response.
C9_DeliveredUpdatesState ==
    IterEnd /\ CandidateDelivered /\ message # lm0 =>
      /\ last_message = message
      /\ timestamp = response.current_date

C9_Witness ==
    /\ IterEnd
    /\ CandidateDelivered
    /\ message # lm0
    /\ lm0 # None
    /\ last_message = message
    /\ timestamp # ts0

\* C10: an iteration in which the fetch, the validation or the parsing raised
\* ends, or ends main, with the cursor it started with, whether the error
\* report was sent or not.
C10_ErrorKeepsCursor ==
    pc \in {"except", "finally", "crashed"} /\ ~hasCand => timestamp = ts0

C10_Witness ==
    /\ IterEnd
    /\ ~hasCand
    /\ iterErr # None
    /\ Reports(attempts, iterErr) = 1
    /\ timestamp = ts0
    /\ polled

\* C11: when the latest iteration that computed a candidate failed to deliver
\* it, the next iteration that computes the same candidate sends it again.
C11_FailedMessageRetried ==
    IterEnd /\ hasCand /\ lastCand # None /\ ~lastSettled
            /\ message = lastCand =>
      /\ attempts # <<>>
      /\ attempts[1].text = message

C11_Witness ==
    /\ IterEnd
    /\ hasCand
    /\ message = lastCand
    /\ ~lastSettled
    /\ ~prevHadCand
    /\ attempts = <<Sent(message, "ok")>>

\* the names among the three required ones whose value is None or empty
MissingNames ==
    {TokenNames[i] : i \in {j \in 1..3 :
        env[TokenNames[j]] # [set |-> TRUE, value |-> "secret"]}}

\* C12: check_tokens returns the required names whose value is absent or
\* empty, each once, and when there is one main leaves at startup: no fetch and
\* no send has been or will be made.
C12_MissingTokensStopMain ==
    /\ {check_tokens(env)[i] : i \in 1..Len(check_tokens(env))} = MissingNames
    /\ Len(check_tokens(env)) = Cardinality(MissingNames)
    /\ MissingNames # {} =>
         /\ pc \in {"start", "exited"}
         /\ ~polled
         /\ gets = 0
         /\ attempts = <<>>
         /\ delivered = None
    /\ pc = "exited" => MissingNames # {}

C12_Witness ==
    /\ pc = "exited"
    /\ check_tokens(env) = <<"TELEGRAM_TOKEN">>
    /\ env["PRACTICUM_TOKEN"].value = "secret"
    /\ ~env["TELEGRAM_TOKEN"].set

\* the exception the claim names for a response: that of the first check, in
\* the order mapping, homeworks present, homeworks a list, current_date
\* present, current_date an integer, that the response fails
FirstViolation(r) ==
    IF ~r.isDict THEN "TypeError"
    ELSE IF ~r.hasHomeworks THEN "KeyError"
    ELSE IF ~r.homeworksIsList THEN "TypeError"
    ELSE IF ~r.hasDate THEN "KeyError"
    ELSE "TypeError"

\* C13: check_response passes exactly the responses that are a mapping with a
\* list under homeworks and an integer under current_date; any other response
\* raises the error of the first check it fails, and main goes to its error
\* handling without a candidate and with the cursor untouched.
C13_ValidatesShape ==
    [][pc = "check" =>
         IF /\ response.isDict
            /\ response.hasHomeworks /\ response.homeworksIsList
            /\ response.hasDate /\ response.dateIsInt /\ ~response.dateIsBool
         THEN pc' = "extract" /\ error' = NoExc
         ELSE /\ pc' = "except"
              /\ error'.kind = FirstViolation(response)
              /\ UNCHANGED <<hasCand, message, timestamp, last_message>>]_vars

\* C14: the extract step rejects a first record with no homework_name, then
\* one with no status, then one whose status is not approved, reviewing or
\* rejected, with the error that names that problem; for any other record the
\* candidate is the fixed text with the record's name and its verdict.
C14_ParseStatusOrder ==
    [][pc = "extract" /\ response.homeworks # <<>> =>
         LET h == response.homeworks[1] IN
           IF ~h.hasName
           THEN /\ pc' = "except"
                /\ error' =
                     Exc("KeyError",
                         <<"Otsutstvuet klyuch \"homework_name\" v homework.">>)
           ELSE IF ~h.hasStatus
           THEN /\ pc' = "except"
                /\ error' =
                     Exc("KeyError",
                         <<"Otsutstvuet klyuch \"status\" v homework.">>)
           ELSE IF h.status \notin {"approved", "reviewing", "rejected"}
           THEN /\ pc' = "except"
                /\ error' =
                     Exc("ValueError",
                         <<"Neizvestnyy status: ", h.status, ".">>)
           ELSE /\ pc' = "notify"
                /\ Len(message') = 4
                /\ message'[1] = "Izmenilsya status proverki raboty \""
                /\ message'[2] = h.homework_name
                /\ message'[3] = "\". "
                /\ message'[4] = HOMEWORK_VERDICTS[h.status]
                /\ error' = NoExc]_vars

C14_Witness ==
    /\ pc = "except"
    /\ ~hasCand
    /\ response.homeworks # <<>>
    /\ ~response.homeworks[1].hasName
    /\ ~response.homeworks[1].hasStatus
    /\ error.kind = "KeyError"
    /\ error.text = <<"Otsutstvuet klyuch \"homework_name\" v homework.">>

\* the record is one parse_status returns a text for
Parsable(h) ==
    /\ h.hasName /\ h.hasStatus
    /\ h.status \in {"approved", "reviewing", "rejected"}

\* C15: the candidate is decided by the first record alone: an empty list
\* gives the fixed text, a list with a parsable first record gives the text of
\* that record whatever the later records are, and only an unparsable first
\* record raises.
C15_FirstRecordDecides ==
    [][pc = "extract" =>
         LET hws == response.homeworks IN
           IF hws = <<>>
           THEN pc' = "notify" /\ message' = NoNewStatuses
           ELSE IF Parsable(hws[1])
           THEN /\ pc' = "notify"
                /\ message'[2] = hws[1].homework_name
                /\ message'[4] = HOMEWORK_VERDICTS[hws[1].status]
           ELSE pc' = "except" /\ UNCHANGED <<message, hasCand>>]_vars

C15_Witness ==
    /\ pc = "notify"
    /\ Len(response.homeworks) = 2
    /\ ~Parsable(response.homeworks[2])
    /\ message[2] = "proj1"
    /\ message[4] = HOMEWORK_VERDICTS["approved"]

\* C16: a call of get_api_answer makes one call of requests.get; when that
\* call raises, the error is an APIRequestError; when it returns a status
\* other than 200, the error is an APIResponseError with the status code and
\* the text of the reply, and not an APIRequestError; when it returns 200 and
\* a body that parses, the result is that body.
C16_OneGetClassified ==
    [][pc = "fetch" =>
         /\ gets' = 1
         /\ IF reply'.cause # ""
            THEN /\ pc' = "except"
                 /\ error'.kind = "APIRequestError"
                 /\ error'.text[2] = reply'.cause
            ELSE IF reply'.status_code # 200
            THEN /\ pc' = "except"
                 /\ error'.kind = "APIResponseError"
                 /\ error'.text[2] = ToString(reply'.status_code)
                 /\ error'.text[4] = reply'.text
            ELSE reply'.isJson =>
                   /\ pc' = "check"
                   /\ response' = reply'.body
                   /\ error' = NoExc]_vars

C16_Witness ==
    /\ pc = "except"
    /\ gets = 1
    /\ reply.cause = ""
    /\ reply.status_code = 500
    /\ error.kind = "APIResponseError"

\* C17, as stated: when two consecutive iterations compute the same
\* candidate, the second sends nothing and changes neither last_message nor
\* the cursor.
C17_SecondNotifyIsNoOp ==
    IterEnd /\ hasCand /\ prevHadCand /\ message = lastCand =>
      /\ attempts = <<>>
      /\ last_message = lm0
      /\ timestamp = ts0

\* C17, amended: when two consecutive iterations compute the same candidate
\* and the first delivered it or found it equal to last_message, the second
\* sends nothing and changes neither last_message nor the cursor; when the
\* delivery of the first failed, the second sends the candidate again.
C17_SecondNotifyIsNoOpOnceSettled ==
    IterEnd /\ hasCand /\ prevHadCand /\ message = lastCand =>
      IF lastSettled
      THEN /\ attempts = <<>>
           /\ last_message = lm0
           /\ timestamp = ts0
      ELSE /\ attempts # <<>>
           /\ attempts[1].text = message

C17_Witness ==
    /\ IterEnd
    /\ hasCand
    /\ prevHadCand
    /\ message = lastCand
    /\ lastSettled
    /\ lastStatus = message
    /\ attempts = <<>>
    /\ last_message = message

\* C18: a text that bot.send_message delivers is never the text of the
\* delivery before it.
C18_NoRepeatedDelivery ==
    [][Len(attempts') > Len(attempts)
         /\ attempts'[Len(attempts')].outcome = "ok" =>
       attempts'[Len(attempts')].text # delivered]_vars

C18_Witness ==
    /\ IterEnd
    /\ lm0 # None
    /\ attempts # <<>>
    /\ attempts[Len(attempts)].outcome = "ok"
    /\ delivered = attempts[Len(attempts)].text
    /\ delivered # lm0

\* the calls of bot.send_message of the current iteration that returned
Deliveries == {i \in 1..Len(attempts) : attempts[i].outcome = "ok"}

\* C19: at most one call of bot.send_message returns in an iteration,
\* whether the notify step or the error handling made it.
C19_OneDeliveryPerIteration == Cardinality(Deliveries) <= 1

C19_Witness ==
    /\ IterEnd
    /\ Len(attempts) = 2
    /\ attempts[1].outcome = "ConnectionError"
    /\ attempts[2].outcome = "ok"

\* the text is one main built at line 194
IsErrorReport(text) == text # None /\ text[1] = "Sboy v rabote programmy: "

\* C20: when last_message is an error report at the top of an iteration whose
\* candidate is the status delivered latest, the candidate is sent again, and
\* if that delivery succeeds it becomes last_message and the cursor is set to
\* the current_date of the response.
C20_StatusResentAfterErrorReport ==
    IterEnd /\ hasCand /\ lastStatus # None /\ message = lastStatus
            /\ IsErrorReport(lm0) =>
      /\ attempts # <<>>
      /\ attempts[1].text = message
      /\ (attempts[1].outcome = "ok" =>
            /\ last_message = message
            /\ timestamp = response.current_date)

C20_Witness ==
    /\ IterEnd
    /\ hasCand
    /\ message = lastStatus
    /\ IsErrorReport(lm0)
    /\ attempts = <<Sent(message, "ok")>>
    /\ timestamp # ts0
    /\ last_message = message

====
